---------------------------- MODULE Spec2Model ----------------------------
(***************************************************************************)
(* Model of bestboth.c (D. Canright): for each input record, the two       *)
(* packed 8-column bit matrices (A2X|S2X<<8 and X2S|X2A<<8) are optimised  *)
(* by the recursive search bestgates() over the single static GateMat      *)
(* `test`, then the best matrix is rebuilt by bestmat().                   *)
(*                                                                         *)
(* The recursion of bestgates() is modelled with an explicit stack of      *)
(* frames holding the locals of each active call.                          *)
(***************************************************************************)
EXTENDS Integers, Sequences, FiniteSets

\* ------------------------------------------------------------------ sizes
N == 8            \* #define N 8
MatCap == 128     \* uint32_t mat[128]
IndCap == 256     \* char ind[256]
GbStart == 1024   \* gb = 1024; "best # gates, start high"
NumBytes == 32    \* int InitMat[32]

\* bounds of the input streams explored
MaxLo == 3        \* the varying bytes of A2X (low bytes of a column) range over 0..MaxLo
MaxStream == 2    \* longest input stream (in records) explored

\* --------------------------------------------------------- bit operations
RECURSIVE BitAnd(_, _)
\* a & b, bit by bit
BitAnd(a, b) ==
  IF a = 0 \/ b = 0 THEN 0
  ELSE (a % 2) * (b % 2) + 2 * BitAnd(a \div 2, b \div 2)

RECURSIVE BitXor(_, _)
\* a ^ b, bit by bit
BitXor(a, b) ==
  IF a = 0 THEN b
  ELSE IF b = 0 THEN a
  ELSE ((a + b) % 2) + 2 * BitXor(a \div 2, b \div 2)

\* a & b and a ^ b for 4-bit values, tabulated
NibbleAnd == [a \in 0..15 |-> [b \in 0..15 |-> BitAnd(a, b)]]
NibbleXor == [a \in 0..15 |-> [b \in 0..15 |-> BitXor(a, b)]]

RECURSIVE And(_, _)
\* a & b, four bits at a time
And(a, b) ==
  IF a = 0 \/ b = 0 THEN 0
  ELSE NibbleAnd[a % 16][b % 16] + 16 * And(a \div 16, b \div 16)

RECURSIVE Xor(_, _)
\* a ^ b, four bits at a time
Xor(a, b) ==
  IF a = 0 THEN b
  ELSE IF b = 0 THEN a
  ELSE NibbleXor[a % 16][b % 16] + 16 * Xor(a \div 16, b \div 16)

\* a | (b << 8) for bytes a, b
PackCol(a, b) == a + 256 * b

RECURSIVE Bits(_)
\* for (j = ...; j; j >>= 1) k += j & 1;
Bits(j) == IF j = 0 THEN 0 ELSE (j % 2) + Bits(j \div 2)

\* the number of set bits of a 4-bit value, tabulated
NibbleBits == [a \in 0..15 |-> Bits(a)]

RECURSIVE BitCount(_)
\* the k that the loop of line 187 leaves, four bits of j at a time
BitCount(j) == IF j = 0 THEN 0 ELSE NibbleBits[j % 16] + BitCount(j \div 16)

\* share[0] = 0; share[i] = k - 1 for i >= 1
share(v) == IF v = 0 THEN 0 ELSE BitCount(v % 65536) - 1

\* ------------------------------------------------------------------ state
VARIABLES
  input,     \* stdin: the records not read yet
  out,       \* stdout: what blockPrint and the summary line have printed
  InitMat,   \* main: int InitMat[32], the 32 bytes of the current record
  orig,      \* main: GateMat orig[2] (the fields main and bestmat touch)
  k,         \* main: index of the matrix pair being processed
  gt,        \* main: total # gates of the record
  test,      \* static GateMat test
  stack,     \* active calls of bestgates(), innermost last: their locals
  entered,   \* history variable: `test` as it was on entry to each active call
  ret,       \* history variable: the locals of the call that returned last, and
             \* its entry in `entered`
  pc         \* position of main: "read", "pair", "search", "returned",
             \* "searched", "rebuilt", "exit"

vars == <<input, out, InitMat, orig, k, gt, test, stack, entered, ret, pc>>

\* ----------------------------------------------------------------- inputs
\* A record is the 32 bytes of a line, in the order [A2X, X2A, X2S, S2X].
MkRecord(a2x, x2a, x2s, s2x) ==
  [x \in 0..NumBytes-1 |->
     CASE x < 8 -> a2x[x]
       [] x >= 8 /\ x < 16 -> x2a[x - 8]
       [] x >= 16 /\ x < 24 -> x2s[x - 16]
       [] OTHER -> s2x[x - 24]]

\* the columns that vary, and the high bytes (S2X and X2A) they take: no bit,
\* one bit or two bits that all the varying columns have in common
VarCols == 0..3
HiBytes == {0, 1, 3}

\* Records with rich pairs: every column i of VarCols of (A2X, S2X) has a low
\* byte of 0..MaxLo and the high byte h of HiBytes, every other column the
\* single bit i (which shares at most one bit with any column), and
\* (X2S, X2A) is the same matrix pair again: its search starts from what the
\* first one left in `test`.
RichRecords ==
  {MkRecord([i \in 0..7 |-> IF i \in VarCols THEN lo[i] ELSE 2^i],
            [i \in 0..7 |-> IF i \in VarCols THEN h ELSE 0],
            [i \in 0..7 |-> IF i \in VarCols THEN lo[i] ELSE 2^i],
            [i \in 0..7 |-> IF i \in VarCols THEN h ELSE 0]) :
     lo \in [VarCols -> 0..MaxLo], h \in HiBytes}

\* three small matrix pairs, as (low bytes, high bytes): all zero; two equal
\* columns; two pairs of equal columns that share nothing with each other
SmallMats ==
  {<<[i \in 0..7 |-> 0], [i \in 0..7 |-> 0]>>,
   <<[i \in 0..7 |-> IF i < 2 THEN 3 ELSE 0], [i \in 0..7 |-> IF i < 2 THEN 3 ELSE 0]>>,
   <<[i \in 0..7 |-> IF i < 2 THEN 3 ELSE 0], [i \in 0..7 |-> IF i \in 2..3 THEN 3 ELSE 0]>>}

\* Records whose two pairs are drawn independently from the small matrix pairs
SmallRecords ==
  {MkRecord(p0[1], p1[2], p1[1], p0[2]) : p0 \in SmallMats, p1 \in SmallMats}

RECURSIVE SeqsUpTo(_, _)
\* the sequences over S of length 1..n
SeqsUpTo(S, n) ==
  IF n = 0 THEN {}
  ELSE {<<r>> : r \in S} \cup
       {Append(q, r) : q \in SeqsUpTo(S, n - 1), r \in S}

\* the input streams: one rich record, or up to MaxStream small records
Streams == {<<r>> : r \in RichRecords} \cup SeqsUpTo(SmallRecords, MaxStream)

\* ------------------------------------------------------------ GateMat ops
\* copyMat without line 85 (q->g = p->g): *q keeps its own gate count
copyMatKeepsG(p, q) ==
  LET n == p.n IN
  [n |-> n,
   g |-> q.g,
   mat |-> [x \in 0..MatCap-1 |-> IF x < n THEN p.mat[x] ELSE q.mat[x]],
   ind |-> [x \in 0..IndCap-1 |-> IF x < (n - N) * 2 THEN p.ind[x] ELSE q.ind[x]]]

\* copyMat(p, q): the new value of *q
copyMat(p, q) ==
  LET n == p.n IN
  [n |-> n,
   g |-> p.g,
   mat |-> [x \in 0..MatCap-1 |-> IF x < n THEN p.mat[x] ELSE q.mat[x]],
   ind |-> [x \in 0..IndCap-1 |-> IF x < (n - N) * 2 THEN p.ind[x] ELSE q.ind[x]]]

\* the baseline without the "- 8" of line 211
BaseGatesNoOutputs(mat) ==
  LET RECURSIVE Sum(_)
      Sum(i) == IF i = 8 THEN 0 ELSE share(mat[i]) + Sum(i + 1)
  IN Sum(0)

\* j = sum of share[mat[i]], i < 8;  g = j - 8
BaseGates(mat) ==
  LET RECURSIVE Sum(_)
      Sum(i) == IF i = 8 THEN 0 ELSE share(mat[i]) + Sum(i + 1)
  IN Sum(0) - 8

\* the test of line 120 on the overlap itself instead of on its savings
CanShareAnyOverlap(c) == c # 0

\* t = share[c]; if (t)
CanShare(c) == share(c) # 0

\* the skip of line 121 without its first condition
SkipAnyOrder(i, j, io, jo, nm) == j # io /\ j # jo /\ j < nm

\* if (i < io && j != io && j != jo && j < nm) continue;
Skip(i, j, io, jo, nm) == i < io /\ j # io /\ j # jo /\ j < nm

RECURSIVE NextMove(_, _, _, _, _, _)
\* for (i = 0; i < nm; i++) for (j = i + 1; j < n; j++): the loops of a call
\* with n columns run from the position (i, j) on to the first pair that
\* passes both tests (lines 120 and 121), which is the next one applied;
\* <<nm, n>> when the loops end without one
NextMove(mat, n, io, jo, i, j) ==
  IF ~(i < n - 1) THEN <<n - 1, n>>
  ELSE IF ~(j < n) THEN NextMove(mat, n, io, jo, i + 1, i + 2)
  ELSE IF /\ CanShare(And(mat[i], mat[j]))
          /\ ~Skip(i, j, io, jo, n - 1)
       THEN <<i, j>>
       ELSE NextMove(mat, n, io, jo, i, j + 1)

\* locals of bestgates() after lines 103-115, with the loops run on to the
\* first pair they apply
NewFrame(t) ==
  LET n == t.n
      n2 == 2 * (n - N)
      io == IF n = N THEN 0 ELSE t.ind[n2 - 2]
      jo == IF n = N THEN 0 ELSE t.ind[n2 - 1]
      p == NextMove(t.mat, n, io, jo, 0, 1)
  IN [n |-> n, g |-> t.g, io |-> io, jo |-> jo,
      i |-> p[1], j |-> p[2],
      gb |-> GbStart, nb |-> 0, indb |-> << >>,
      ci |-> 0, cj |-> 0]

\* the history entry written in the other order
RecordPairSwapped(ind, n2, i, j) == [ind EXCEPT ![n2] = j, ![n2 + 1] = i]

\* test.ind[n2] = i; test.ind[n2p] = j;
RecordPair(ind, n2, i, j) == [ind EXCEPT ![n2] = i, ![n2 + 1] = j]

\* the move without line 129 (test.mat[i] ^= c)
ApplyMoveKeepsI(t, n, g, i, j) ==
  LET c == And(t.mat[i], t.mat[j]) IN
  [n |-> n + 1,
   g |-> g - share(c),
   mat |-> [t.mat EXCEPT ![j] = Xor(t.mat[j], c), ![n] = c],
   ind |-> RecordPair(t.ind, 2 * (n - N), i, j)]

\* lines 125-133: the move (i, j) applied to test in a call with n columns, g gates
ApplyMove(t, n, g, i, j) ==
  LET c == And(t.mat[i], t.mat[j]) IN
  [n |-> n + 1,
   g |-> g - share(c),
   mat |-> [t.mat EXCEPT ![i] = Xor(t.mat[i], c), ![j] = Xor(t.mat[j], c), ![n] = c],
   ind |-> RecordPair(t.ind, 2 * (n - N), i, j)]

\* the undo without line 136 (test.mat[j] = cj)
RestoreOnlyI(mat, i, j, ci, cj) == [mat EXCEPT ![i] = ci]

\* test.mat[i] = ci; test.mat[j] = cj;
Restore(mat, i, j, ci, cj) == [mat EXCEPT ![i] = ci, ![j] = cj]

\* if (test.g < gb)
Better(g, gb) == g < gb

\* lines 137-141: the caller's locals after the callee returned into `t`
\* (columns i and j restored), with the loops run on to the next pair they apply
NoteResult(f, t) ==
  LET p == NextMove(t.mat, f.n, f.io, f.jo, f.i, f.j + 1)
      f2 == [f EXCEPT !.i = p[1], !.j = p[2]]
  IN IF Better(t.g, f.gb)
     THEN [f2 EXCEPT !.indb = [x \in 1..(t.n - f.n) * 2 |-> t.ind[2 * (f.n - N) + x - 1]],
                     !.nb = t.n, !.gb = t.g]
     ELSE f2

\* the copy-back without line 147 (test.g = gb)
FinishKeepsG(t, f) ==
  IF f.gb < GbStart
  THEN [t EXCEPT !.ind = [x \in 0..IndCap-1 |->
                            IF x >= 2 * (f.n - N) /\ x < 2 * (f.n - N) + (f.nb - f.n) * 2
                            THEN f.indb[x - 2 * (f.n - N) + 1] ELSE t.ind[x]],
                 !.n = f.nb]
  ELSE t

\* lines 144-148: test when the call with locals f returns
Finish(t, f) ==
  IF f.gb < GbStart
  THEN [t EXCEPT !.ind = [x \in 0..IndCap-1 |->
                            IF x >= 2 * (f.n - N) /\ x < 2 * (f.n - N) + (f.nb - f.n) * 2
                            THEN f.indb[x - 2 * (f.n - N) + 1] ELSE t.ind[x]],
                 !.n = f.nb, !.g = f.gb]
  ELSE t

\* a pass of bestmat's loop without line 165 (test.mat[j] ^= c)
ReplayStepKeepsJ(mat, ind, n) ==
  LET i == ind[n * 2]
      j == ind[n * 2 + 1]
      c == And(mat[i], mat[j])
  IN [mat EXCEPT ![i] = Xor(mat[i], c), ![n + N] = c]

\* one pass of bestmat's loop body, lines 161-166
ReplayStep(mat, ind, n) ==
  LET i == ind[n * 2]
      j == ind[n * 2 + 1]
      c == And(mat[i], mat[j])
  IN [mat EXCEPT ![i] = Xor(mat[i], c), ![j] = Xor(mat[j], c), ![n + N] = c]

RECURSIVE Replay(_, _, _, _)
\* for (n = 0; n < (test.n - N); n++), from pass n on
Replay(mat, ind, n, cnt) ==
  IF n >= cnt THEN mat ELSE Replay(ReplayStep(mat, ind, n), ind, n + 1, cnt)

\* bestmat(p): the new test.mat
bestmat(p, t) ==
  Replay([x \in 0..MatCap-1 |-> IF x < N THEN p.mat[x] ELSE t.mat[x]], t.ind, 0, t.n - N)

\* char name[4][4], bname[4][5]
name == <<"A2X", "X2S", "S2X", "X2A">>
bname == <<"A2Xb", "X2Sb", "S2Xb", "X2Ab">>

\* what blockPrint(p, tag1, tag2) prints: the tags, the n columns (as the two
\* hex rows show them), the n - N index pairs, n and g
blockPrint(p, tag1, tag2) ==
  [tag1 |-> tag1, tag2 |-> tag2,
   mat |-> [x \in 0..p.n-1 |-> p.mat[x] % 65536],
   ind |-> [x \in 0..2*(p.n - N)-1 |-> p.ind[x]],
   n |-> p.n, g |-> p.g]

\* ------------------------------------------------------------------- Init
\* `test` is static, hence zeroed; orig[] and InitMat are written before read.
Init ==
  /\ input \in Streams
  /\ out = << >>
  /\ InitMat = [x \in 0..NumBytes-1 |-> 0]
  /\ orig = [p \in 0..1 |-> [mat |-> [x \in 0..N-1 |-> 0], ind |-> << >>, n |-> 0, g |-> 0]]
  /\ k = 0
  /\ gt = 0
  /\ test = [mat |-> [x \in 0..MatCap-1 |-> 0], ind |-> [x \in 0..IndCap-1 |-> 0],
             n |-> 0, g |-> 0]
  /\ stack = << >>
  /\ entered = << >>
  /\ ret = [f |-> << >>, entry |-> << >>]
  /\ pc = "read"

\* ---------------------------------------------------------------- actions
\* main, lines 191-205: read a record, pack the two matrix pairs
ReadRecord ==
  /\ pc = "read"
  /\ input # << >>
  /\ LET r == Head(input) IN
       /\ InitMat' = r
       /\ orig' = [p \in 0..1 |->
                    [orig[p] EXCEPT !.mat = [i \in 0..N-1 |->
                       IF p = 0 THEN PackCol(r[8 * 0 + i], r[8 * 3 + i])
                                ELSE PackCol(r[8 * 2 + i], r[8 * 1 + i])]]]
  /\ input' = Tail(input)
  /\ gt' = 0
  /\ k' = 0
  /\ pc' = "pair"
  /\ UNCHANGED <<out, test, stack, entered, ret>>

\* main, lines 191 and 227: fgets fails at the end of the input, return 0
Exit ==
  /\ pc = "read"
  /\ input = << >>
  /\ pc' = "exit"
  /\ UNCHANGED <<input, out, InitMat, orig, k, gt, test, stack, entered, ret>>

\* main, lines 207-216: baseline of pair k, report, copy into test, call bestgates()
StartPair ==
  /\ pc = "pair"
  /\ LET o == [orig[k] EXCEPT !.n = 8, !.g = BaseGates(orig[k].mat)]
         t == copyMat(o, test)
     IN /\ orig' = [orig EXCEPT ![k] = o]
        /\ out' = Append(out, blockPrint(o, name[k + 1], name[k + 3]))
        /\ test' = t
        /\ stack' = <<NewFrame(t)>>
        /\ entered' = <<t>>
  /\ pc' = "search"
  /\ UNCHANGED <<input, InitMat, k, gt, ret>>

\* bestgates, lines 118-134: the pair the loops stand at is applied, recurse
Combine ==
  /\ pc = "search"
  /\ LET f == stack[Len(stack)] IN
     /\ f.i < f.n - 1
     /\ LET t == ApplyMove(test, f.n, f.g, f.i, f.j)
            f2 == [f EXCEPT !.ci = test.mat[f.i], !.cj = test.mat[f.j]]
        IN /\ test' = t
           /\ stack' = Append([stack EXCEPT ![Len(stack)] = f2], NewFrame(t))
           /\ entered' = Append(entered, t)
  /\ UNCHANGED <<input, out, InitMat, orig, k, gt, ret, pc>>

\* bestgates, lines 143-150: the loops are over, the best data is put back, return
Return ==
  /\ pc = "search"
  /\ LET f == stack[Len(stack)] IN
     /\ ~(f.i < f.n - 1)
     /\ test' = Finish(test, f)
     /\ ret' = [f |-> f, entry |-> entered[Len(entered)]]
  /\ stack' = SubSeq(stack, 1, Len(stack) - 1)
  /\ entered' = SubSeq(entered, 1, Len(entered) - 1)
  /\ pc' = IF Len(stack) = 1 THEN "searched" ELSE "returned"
  /\ UNCHANGED <<input, out, InitMat, orig, k, gt>>

\* bestgates, lines 135-141 and on through the loops: back in the caller,
\* restore the two columns, keep the result if it is the best yet
Resume ==
  /\ pc = "returned"
  /\ LET f == stack[Len(stack)]
         t == [test EXCEPT !.mat = Restore(test.mat, f.i, f.j, f.ci, f.cj)]
     IN /\ test' = t
        /\ stack' = [stack EXCEPT ![Len(stack)] = NoteResult(f, t)]
  /\ pc' = "search"
  /\ UNCHANGED <<input, out, InitMat, orig, k, gt, entered, ret>>

\* main, line 217: bestmat(&orig[k])
BestMat ==
  /\ pc = "searched"
  /\ orig' = [orig EXCEPT ![k].g = test.g]
  /\ test' = [test EXCEPT !.mat = bestmat(orig[k], test)]
  /\ pc' = "rebuilt"
  /\ UNCHANGED <<input, out, InitMat, k, gt, stack, entered, ret>>

\* main, lines 219-225: report, add to the total, next pair or summary line
Report ==
  /\ pc = "rebuilt"
  /\ gt' = gt + test.g
  /\ k' = k + 1
  /\ LET b == blockPrint(test, bname[k + 1], bname[k + 3]) IN
       out' = IF k + 1 < 2
              THEN Append(out, b)
              ELSE Append(Append(out, b),
                          [tag1 |-> "***bestgates", gt |-> gt + test.g,
                           g0 |-> orig[0].g, g1 |-> orig[1].g])
  /\ pc' = IF k + 1 < 2 THEN "pair" ELSE "read"
  /\ UNCHANGED <<input, InitMat, orig, test, stack, entered, ret>>

Next ==
  ReadRecord \/ Exit \/ StartPair \/ Combine \/ Return \/ Resume \/ BestMat \/ Report

Spec == Init /\ [][Next]_vars

\* ----------------------------------------------------------------- claims
\* bit r of v
Bit(v, r) == (v \div 2^r) % 2

\* the positions of main while bestgates() runs or has just returned
InSearch == pc \in {"search", "returned", "searched"}

\* the columns of orig[k] laid out as bestgates() sees them after copyMat
Spread(mat) == [x \in 0..MatCap-1 |-> IF x < N THEN mat[x] ELSE 0]

\* the overlap of move m of a history replayed in order from the columns mat
\* (the column the move produces, as it is right after the move)
Overlap(mat, ind, m) == Replay(Spread(mat), ind, 0, m + 1)[N + m]

RECURSIVE SavingsFrom(_, _, _, _, _)
\* the savings of the moves max(m, m0)..m1-1 of the history ind, the moves
\* from m on replayed in order on the columns mat
SavingsFrom(mat, ind, m, m0, m1) ==
  IF m >= m1 THEN 0
  ELSE LET nx == ReplayStep(mat, ind, m) IN
       (IF m >= m0 THEN share(nx[N + m]) ELSE 0) + SavingsFrom(nx, ind, m + 1, m0, m1)

\* the savings of the moves m0..m1-1 of a history replayed from the columns mat
Savings(mat, ind, m0, m1) == SavingsFrom(Spread(mat), ind, 0, m0, m1)

\* C3 as stated: the baseline g of the pair being searched is the sum over its
\* 8 columns of (popcount(column) - 1)
C3_BaselineIsSumOfPopcountMinusOne ==
  InSearch =>
    LET RECURSIVE Sum(_)
        Sum(i) == IF i = N THEN 0 ELSE (BitCount(orig[k].mat[i]) - 1) + Sum(i + 1)
    IN orig[k].g = Sum(0)

\* C3 as amended: the baseline g is the number of set bits of the 8 columns,
\* minus one for every column that is not zero, minus 8
C3_Baseline ==
  InSearch =>
    LET mat == orig[k].mat
        bits == {c \in (0..N-1) \X (0..15) : Bit(mat[c[1]], c[2]) = 1}
        nonzero == {i \in 0..N-1 : mat[i] # 0}
    IN orig[k].g = Cardinality(bits) - Cardinality(nonzero) - 8

\* a search runs on a pair with a zero column and with columns of several bits
C3_Witness ==
  /\ InSearch
  /\ \E i \in 0..N-1 : orig[k].mat[i] = 0
  /\ \E i \in 0..N-1 : BitCount(orig[k].mat[i]) >= 3

\* C4: whenever a call of bestgates() returns, g is what the call was entered
\* with minus the savings of the moves it added to the history, replayed in
\* order from the original columns; so the g returned to main never exceeds
\* the baseline and belongs to the n and the history returned with it
C4_CostMatchesHistory ==
  pc \in {"returned", "searched"} =>
    /\ test.n >= ret.entry.n
    /\ test.g = ret.entry.g
                - Savings(orig[k].mat, test.ind, ret.entry.n - N, test.n - N)
    /\ test.g <= ret.entry.g
    /\ pc = "searched" => ret.entry.g = orig[k].g

\* the search of a pair returned to main with at least two moves in its history
C4_Witness ==
  /\ pc = "searched"
  /\ test.n >= N + 2
  /\ test.g < orig[k].g

\* C6: every move applied during the search, and every pair of the history
\* bestmat() has replayed, has an overlap with savings > 0 (two set bits or more)
C6_NoZeroSavingsMove ==
  /\ pc \in {"search", "returned"} =>
       \A d \in 2..Len(entered) : share(entered[d].mat[entered[d].n - 1]) > 0
  /\ pc \in {"searched", "rebuilt"} =>
       \A m \in 0..test.n-N-1 :
          LET c == Overlap(orig[k].mat, test.ind, m)
          IN c # 0 /\ share(c) > 0 /\ BitCount(c) >= 2

\* a history of two moves or more has been replayed, and some pair of columns
\* of the input shares exactly one bit
C6_Witness ==
  /\ pc = "rebuilt"
  /\ test.n >= N + 2
  /\ \E i, j \in 0..N-1 : i < j /\ BitCount(And(orig[k].mat[i], orig[k].mat[j])) = 1

\* C8: in every state of the search and after bestmat(), 8 <= n <= 128, the
\* 2*(n-8) history entries fit the 256 of ind, and every recorded pair (i, j)
\* has i < j < the index of the column it produced
C8_Shape ==
  pc \in {"search", "returned", "searched", "rebuilt"} =>
    /\ N <= test.n /\ test.n <= MatCap
    /\ 2 * (test.n - N) <= IndCap
    /\ \A m \in 0..test.n-N-1 :
         /\ 0 <= test.ind[2 * m]
         /\ test.ind[2 * m] < test.ind[2 * m + 1]
         /\ test.ind[2 * m + 1] < N + m
    /\ \A d \in 1..Len(stack) :
         /\ N <= stack[d].n /\ stack[d].n <= test.n
         /\ d > 1 => stack[d].n = stack[d - 1].n + 1

\* a nested call returned a history of three moves or more, one of them on a
\* column that a move produced
C8_Witness ==
  /\ pc = "returned"
  /\ test.n >= N + 3
  /\ \E m \in 0..test.n-N-1 : test.ind[2 * m + 1] >= N

\* C9: a call of bestgates() entered with n columns returns with columns
\* 0..n-1 and history entries 0..2(n-8)-1 as they were on entry; and if it
\* applied no pair, test is exactly as on entry
C9_BacktrackExact ==
  pc \in {"returned", "searched"} =>
    LET e == ret.entry IN
    /\ \A x \in 0..e.n-1 : test.mat[x] = e.mat[x]
    /\ \A x \in 0..2*(e.n - N)-1 : test.ind[x] = e.ind[x]
    /\ ret.f.gb = GbStart => test = e

\* a nested call that applied pairs itself has returned, with columns beyond
\* its n columns changed
C9_Witness ==
  /\ pc = "returned"
  /\ ret.f.gb < GbStart
  /\ ret.entry.n > N
  /\ \E x \in ret.entry.n..MatCap-1 : test.mat[x] # ret.entry.mat[x]

\* the least element of a non-empty set of integers
Least(S) == CHOOSE m \in S : \A x \in S : m <= x

RECURSIVE MinGates(_, _, _)
\* the least gate count that any sequence of moves with savings > 0 reaches
\* from n columns mat at g gates: the exhaustive search, no pair skipped
\* (only columns of two bits or more can have an overlap of two bits)
MinGates(mat, n, g) ==
  LET Child(i, j) ==
        LET c == And(mat[i], mat[j]) IN
        MinGates([mat EXCEPT ![i] = Xor(mat[i], c), ![j] = Xor(mat[j], c), ![n] = c],
                 n + 1, g - share(c))
      wide == {i \in 0..n-1 : share(mat[i]) > 0}
      kids == {Child(p[1], p[2]) :
                 p \in {q \in wide \X wide :
                          q[1] < q[2] /\ share(And(mat[q[1]], mat[q[2]])) > 0}}
  IN IF kids = {} THEN g ELSE Least(kids)

\* C1: the g that the top-level bestgates() call leaves in test is the least
\* gate count any sequence of moves reaches, the one the exhaustive search
\* without the skip of line 121 returns
C1_PrunedSearchIsExact ==
  pc = "searched" => test.g = MinGates(Spread(orig[k].mat), N, orig[k].g)

\* The returned history holds two consecutive moves on four different
\* columns, the second not on the column the first produced: the search met
\* the same two moves in the other order too, where line 121 skipped the later one
C1_Witness ==
  /\ pc = "searched"
  /\ test.g < orig[k].g
  /\ \E m \in 0..test.n-N-2 :
       LET a == test.ind[2 * m]
           b == test.ind[2 * m + 1]
           c == test.ind[2 * m + 2]
           d == test.ind[2 * m + 3]
       IN {a, b} \cap {c, d} = {} /\ d < N + m

RECURSIVE Branch(_, _, _, _)
\* test after the moves m..cnt-1 of the history ind are applied, as bestgates()
\* applies them (lines 125-133), to t
Branch(t, ind, m, cnt) ==
  IF m >= cnt THEN t
  ELSE Branch(ApplyMove(t, t.n, t.g, ind[2 * m], ind[2 * m + 1]), ind, m + 1, cnt)

\* C5 as stated: the columns 0..n-1 that bestmat() rebuilds from the returned
\* history are those bestgates() left in test when it returned
C5_ReplayEqualsStateLeft ==
  pc = "searched" =>
    \A x \in 0..test.n-1 : bestmat(orig[k], test)[x] = test.mat[x]

\* C5 as amended: the columns 0..n-1 that bestmat() rebuilds are those the
\* search had in test at the end of the branch it returned (its moves applied
\* in order to the entry state, giving the returned n and g); what bestgates()
\* leaves in test on return are the original columns 0..7 again, so the
\* rebuilt columns differ from them as soon as the history is not empty
C5_ReplayEqualsBestBranch ==
  pc = "searched" =>
    LET b == Branch(ret.entry, test.ind, 0, test.n - N)
        r == bestmat(orig[k], test)
    IN /\ b.n = test.n
       /\ b.g = test.g
       /\ \A x \in 0..test.n-1 : r[x] = b.mat[x]
       /\ \A x \in 0..N-1 : test.mat[x] = orig[k].mat[x]
       /\ test.n > N => \E x \in 0..N-1 : r[x] # test.mat[x]

\* the search returned to main a history of two moves or more, the second on
\* a column the first changed or produced
C5_Witness ==
  /\ pc = "searched"
  /\ test.n >= N + 2
  /\ {test.ind[2], test.ind[3]} \cap {test.ind[0], test.ind[1], N} # {}

\* the reports of the original matrix pairs in out
OrigReports == {x \in 1..Len(out)-1 : out[x].tag1 \in {name[1], name[2]}}

\* C7: two searches on the same 8 original columns report the same n and g,
\* whatever the earlier searches left in test
C7_SameColumnsSameResult ==
  pc \in {"pair", "read", "exit"} =>
    \A x, y \in OrigReports :
      out[x].mat = out[y].mat =>
        /\ out[x + 1].n = out[y + 1].n
        /\ out[x + 1].g = out[y + 1].g

\* two searches on the same columns are reported, each with two moves or
\* more: the first started on the zeroed test, the second on what was left
C7_Witness ==
  /\ pc = "read"
  /\ \E x, y \in OrigReports :
       /\ x = 1 /\ x < y
       /\ out[x].mat = out[y].mat
       /\ out[x + 1].n >= N + 2
       /\ out[y + 1].n >= N + 2

RECURSIVE Sig(_, _)
\* the signal of column x as the set of inputs it XORs (bit kk for input kk):
\* input x for x < 8, else the XOR of the signals of the recorded pair
Sig(ind, x) ==
  IF x < N THEN 2^x
  ELSE Xor(Sig(ind, ind[2 * (x - N)]), Sig(ind, ind[2 * (x - N) + 1]))

\* the n columns mat with the history ind realise the 16 outputs of the columns o
Realises(mat, ind, n, o) ==
  \A r \in 0..15 :
    LET RECURSIVE Got(_)
        Got(x) == IF x = n THEN 0
                  ELSE Xor(IF Bit(mat[x], r) = 1 THEN Sig(ind, x) ELSE 0, Got(x + 1))
        RECURSIVE Want(_)
        Want(x) == IF x = N THEN 0
                   ELSE (IF Bit(o[x], r) = 1 THEN 2^x ELSE 0) + Want(x + 1)
    IN Got(0) = Want(0)

\* C10: the columns in test realise the two linear maps of the input, after
\* every combine step of the search (on entry of the call it recurses into)
\* and after bestmat()
C10_SameLinearMaps ==
  /\ (pc = "search" /\ test.n = stack[Len(stack)].n) =>
       Realises(test.mat, test.ind, test.n, orig[k].mat)
  /\ pc = "rebuilt" => Realises(test.mat, test.ind, test.n, orig[k].mat)

\* bestmat() has rebuilt a matrix with a move on a column that a move produced
C10_Witness ==
  /\ pc = "rebuilt"
  /\ test.n >= N + 2
  /\ \E m \in 0..test.n-N-1 : test.ind[2 * m + 1] >= N

=============================================================================
